---- MODULE Spec2Model ----
(***************************************************************************)
(* The Zoom connector (main.py): main() runs the entity loaders in a fixed *)
(* order against a rate-limited remote API and a relational store.         *)
(*                                                                         *)
(* The store is a set of tables that persist between runs.  The remote API *)
(* is the environment: every call either raises or returns a JSON body     *)
(* drawn from the set of bodies the endpoint can produce.  One action is   *)
(* one step of a loader: a remote call together with the processing of its *)
(* response up to the next remote call.                                    *)
(***************************************************************************)
EXTENDS Integers, Sequences, FiniteSets, TLC

\* ------------------------------------------------------------------ bounds
MaxPages == 2        \* pages a paginated listing may hold
MaxStudents == 2     \* rows of the view vw_Zoom_NewStudentAccounts
MaxRuns == 2         \* runs of main() against the same store
MaxCalls == 4        \* the remote-call counter saturates here

\* --------------------------------------------------------- program constants
StopAfterAttempt == 3     \* RETRY_PARAMS["stop"]
SleepMeetings == 60       \* time.sleep(60) in load_meetings
SleepParticipants == 10   \* time.sleep(10) in load_participants
SleepSettings == 10       \* time.sleep(10) in get_meeting_settings
RolloverMonth == 6        \* today.month > 6
StartMonth == 8           \* datetime.date(year, 8, 1)

\* ------------------------------------------------------------------- dates
\* A date is <<year, month, day>>; a start_time is <<year, month, day, hour>>,
\* the fixed-width string "%Y-%m-%dT%H:%M:%S%z" read field by field.
IsLeap(y) == (y % 4 = 0 /\ y % 100 # 0) \/ y % 400 = 0

DaysInMonth(y, m) ==
    IF m = 2 THEN (IF IsLeap(y) THEN 29 ELSE 28)
    ELSE IF m \in {4, 6, 9, 11} THEN 30 ELSE 31

\* date + datetime.timedelta(days=1)
PlusOneDay(dt) ==
    IF dt[3] < DaysInMonth(dt[1], dt[2]) THEN <<dt[1], dt[2], dt[3] + 1>>
    ELSE IF dt[2] < 12 THEN <<dt[1], dt[2] + 1, 1>>
    ELSE <<dt[1] + 1, 1, 1>>

\* a < b on tuples of equal length, field by field (the order of dates, and
\* the order of the start_time strings)
RECURSIVE LexLess(_, _, _)
LexLess(a, b, i) ==
    IF i > Len(a) THEN FALSE
    ELSE IF a[i] # b[i] THEN a[i] < b[i]
    ELSE LexLess(a, b, i + 1)

Before(a, b) == LexLess(a, b, 1)

\* datetime.datetime.strptime(start_time, ...).date()
DateOfStartTime(st) == <<st[1], st[2], st[3]>>

\* ------------------------------------------------------------------- store
TableNames == {"Zoom_Users", "Zoom_Groups", "Zoom_GroupMembers",
               "Zoom_Meetings", "Zoom_Participants", "Zoom_Meeting_Settings"}

NoTable == [exists |-> FALSE, rows |-> <<>>]

EmptyStore == [t \in TableNames |-> NoTable]

\* inspector.has_table / engine.has_table
has_table(store, name) == store[name].exists

\* Connector.drop_table: NoSuchTableError is caught, the store is left as is
drop_table(store, name) ==
    IF has_table(store, name) THEN [store EXCEPT ![name] = NoTable] ELSE store

\* the rows appended only to a table that exists already
insert_into_existing(store, name, rows) ==
    IF has_table(store, name)
    THEN [store EXCEPT ![name] = [exists |-> TRUE, rows |-> @.rows \o rows]]
    ELSE store

\* sql.insert_into: DataFrame.to_sql(..., if_exists="append"), which creates
\* the table when it is absent
insert_into(store, name, rows) ==
    [store EXCEPT ![name] = [exists |-> TRUE, rows |-> @.rows \o rows]]

\* ------------------------------------------------------------------- state
VARIABLES
    toggles,      \* config.USERS, config.ACCOUNTS, config.MEETINGS,
                  \* config.ENABLE_MAILER
    today,        \* datetime.datetime.today().date()
    students,     \* rows of the view vw_Zoom_NewStudentAccounts
    db,           \* the tables of the store
    runs,         \* runs of main() started so far
    pc,           \* position of the run
    mainpos,      \* call site of main() the run is at (index into Order)
    attempt,      \* tenacity's attempt number of the loader being run
    sleeps,       \* backoff sleeps of the loader call being run
    started,      \* loaders main() has called in this run, in order
    returned,     \* loaders that returned to main() in this run, in order
    page,         \* local page
    page_count,   \* local page_count
    params,       \* local params: page_number, page, next_page_token
    units,        \* the list a loader iterates (group ids, uuids, meeting ids)
    idx,          \* position of the for loop in units
    page_token,   \* local page_token
    acc,          \* local accumulator (meetings / results)
    run_date,     \* local run_date
    student_group_id, \* local student_group_id
    covered,      \* keys the store covered when the watermark was resolved
    ncalls,       \* remote calls of the loader call being run (saturating)
    lastReq,      \* the last remote request issued
    lastResp,     \* what the last remote call returned
    lastSleep,    \* seconds slept for throttling in the last step
    createCalls,  \* students a creation call was issued for
    created,      \* students whose creation call succeeded
    addCalls,     \* member lists of the bulk add-members calls issued
    error_message, \* error_message of the script: "None" or the traceback
    notified,     \* error_message arguments of the Mailer.notify calls
    exit_status   \* exit status of the process, once it has exited

vars == <<toggles, today, students, db, runs, pc, mainpos, attempt, sleeps,
          started, returned, page, page_count, params, units, idx, page_token,
          acc, run_date, student_group_id, covered, ncalls, lastReq, lastResp,
          lastSleep, createCalls, created, addCalls, error_message, notified,
          exit_status>>

locals == <<page, page_count, params, units, idx, page_token, acc, run_date,
            student_group_id, covered>>

accounts == <<createCalls, created, addCalls>>

env == <<toggles, today, students, runs>>

outcome == <<error_message, notified, exit_status>>

\* Python's None, True and an opaque continuation token, as numbers: None is
\* 0 (falsy), True is 1, and the token that leads to page k is k (k >= 2).
None == 0
True == 1

NoParams == [page_number |-> None, page |-> None, next_page_token |-> None]

NoDate == <<0, 0, 0>>

NoReq == [ep |-> "none", key |-> <<>>, page |-> None]

\* ------------------------------------------------------------------- main
Order == <<"load_users", "load_groups", "load_group_members",
           "create_student_accounts", "load_meetings", "load_participants",
           "get_meeting_settings">>

\* the toggle main() tests before each call
Toggle(loader) ==
    IF loader \in {"load_users", "load_groups", "load_group_members"}
    THEN toggles.USERS
    ELSE IF loader = "create_student_accounts" THEN toggles.ACCOUNTS
    ELSE toggles.MEETINGS

\* the first call site at or after pos whose toggle is set
RECURSIVE NextSite(_)
NextSite(pos) ==
    IF pos > Len(Order) THEN pos
    ELSE IF Toggle(Order[pos]) THEN pos
    ELSE NextSite(pos + 1)

\* the loaders decorated with @retry(**RETRY_PARAMS)
Retried == {"load_users", "load_participants", "load_groups",
            "load_group_members", "load_meetings"}

ResetLocals ==
    /\ page' = 0
    /\ page_count' = 0
    /\ params' = NoParams
    /\ units' = <<>>
    /\ idx' = 0
    /\ page_token' = None
    /\ acc' = <<>>
    /\ run_date' = NoDate
    /\ student_group_id' = ""
    /\ covered' = {}

Bump(n) == IF n < MaxCalls THEN n + 1 ELSE n

\* A remote call is issued: the request is req, the answer is of kind kind.
Called(req, kind) ==
    /\ ncalls' = Bump(ncalls)
    /\ lastReq' = req
    /\ lastResp' = kind

NotCalled ==
    /\ lastReq' = NoReq
    /\ lastResp' = "none"
    /\ UNCHANGED ncalls

\* the exception swallowed: main() goes on with the next loader
RaiseAndContinue ==
    /\ ResetLocals
    /\ lastSleep' = 0
    /\ pc' = "main"
    /\ mainpos' = mainpos + 1
    /\ UNCHANGED <<attempt, sleeps, returned>>

\* An exception leaves the body of the loader at Order[mainpos].  tenacity
\* calls a decorated loader again, from its first line, after a backoff sleep,
\* until StopAfterAttempt attempts were made; then, and at once for a loader
\* that is not decorated, the exception reaches main().
Raise ==
    /\ ResetLocals
    /\ lastSleep' = 0
    /\ UNCHANGED returned
    /\ IF Order[mainpos] \in Retried /\ attempt < StopAfterAttempt
       THEN /\ pc' = Order[mainpos]
            /\ attempt' = attempt + 1
            /\ sleeps' = sleeps + 1
            /\ UNCHANGED mainpos
       ELSE /\ pc' = "raised"
            /\ UNCHANGED <<mainpos, attempt, sleeps>>

\* The loader at Order[mainpos] returns to main().
Return ==
    /\ ResetLocals
    /\ lastSleep' = 0
    /\ pc' = "main"
    /\ mainpos' = mainpos + 1
    /\ returned' = Append(returned, Order[mainpos])
    /\ UNCHANGED <<attempt, sleeps>>

\* main(): the next call whose toggle is set, or the end of main()
main ==
    /\ pc = "main"
    /\ LET site == NextSite(mainpos) IN
       IF site > Len(Order)
       THEN /\ pc' = "done"
            /\ mainpos' = site
            /\ UNCHANGED <<attempt, sleeps, started, ncalls>>
       ELSE /\ pc' = Order[site]
            /\ mainpos' = site
            /\ attempt' = 1
            /\ sleeps' = 0
            /\ ncalls' = 0
            /\ started' = Append(started, Order[site])
    /\ lastReq' = NoReq
    /\ lastResp' = "none"
    /\ UNCHANGED <<env, outcome, db, returned, locals, lastSleep, accounts>>

\* Mailer.notify(error_message=...): the notifier takes the message and
\* returns (fire-and-forget).
notify(sent, message) == Append(sent, message)

\* The script after main(): error_message is None when main() returned and
\* the formatted traceback when it raised (the exception is caught and
\* logged); the notifier is called when config.ENABLE_MAILER is set; the
\* script ends there, and the interpreter exits with the status 0.
script_end ==
    /\ pc \in {"done", "raised"}
    /\ pc' = "exited"
    /\ error_message' = IF pc = "raised" THEN "traceback" ELSE "None"
    /\ notified' = IF toggles.ENABLE_MAILER
                   THEN notify(notified, error_message')
                   ELSE notified
    /\ exit_status' = 0
    /\ lastReq' = NoReq
    /\ lastResp' = "none"
    /\ UNCHANGED <<env, db, mainpos, attempt, sleeps, started, returned, locals,
                   ncalls, lastSleep, accounts>>

\* A new process enters main(): the store is as the last run left it.
StartRun ==
    /\ pc' = "main"
    /\ mainpos' = 1
    /\ attempt' = 1
    /\ sleeps' = 0
    /\ started' = <<>>
    /\ returned' = <<>>
    /\ ncalls' = 0
    /\ lastReq' = NoReq
    /\ lastResp' = "none"
    /\ lastSleep' = 0
    /\ createCalls' = <<>>
    /\ created' = <<>>
    /\ addCalls' = <<>>
    /\ error_message' = "None"
    /\ notified' = <<>>
    /\ exit_status' = 0
    /\ UNCHANGED <<toggles, students, db, locals>>

\* The process has ended; the scheduler starts the connector again, the same
\* day or the next, against the same store.
NewRun ==
    /\ pc = "exited"
    /\ runs < MaxRuns
    /\ runs' = runs + 1
    /\ \E t \in {today, PlusOneDay(today)} : today' = t
    /\ StartRun

\* The scheduler starts the connector again on the same day, any number of
\* times (the runs are counted up to MaxRuns).
Rerun ==
    /\ pc = "exited"
    /\ runs' = IF runs < MaxRuns THEN runs + 1 ELSE runs
    /\ today' = today
    /\ StartRun

\* The page a token-paginated listing serves for a request: the first page
\* without a token, page k for the token that leads to page k.
PageServed(token) == IF token = None THEN 1 ELSE token

\* The remote request the run issues next, where it stands at a remote call:
\* the endpoint, the unit asked for and the page asked for (page_number of a
\* number-paginated listing, next_page_token of a token-paginated one).
Request ==
    CASE pc = "load_users" ->
           [ep |-> "user.list", key |-> <<>>, page |-> 1]
      [] pc = "load_users_loop" /\ page <= page_count ->
           [ep |-> "user.list", key |-> <<>>, page |-> page]
      [] pc = "load_groups" ->
           [ep |-> "group.list", key |-> <<>>, page |-> None]
      [] pc = "load_group_members_first" /\ idx <= Len(units) ->
           [ep |-> "group.list_members", key |-> units[idx], page |-> 1]
      [] pc = "load_group_members_loop" /\ page <= page_count ->
           [ep |-> "group.list_members", key |-> units[idx],
            page |-> params.page_number]
      [] pc = "create_student_accounts_loop" /\ idx <= Len(units) ->
           [ep |-> "user.create", key |-> units[idx], page |-> None]
      [] pc = "create_student_accounts_loop" /\ idx > Len(units) ->
           [ep |-> "group.add_members", key |-> student_group_id,
            page |-> None]
      [] pc = "load_meetings_loop" /\ page_token # None ->
           [ep |-> "metric.list_meetings", key |-> run_date,
            page |-> params.next_page_token]
      [] pc = "load_participants_loop" /\ idx <= Len(units) ->
           [ep |-> "metric.list_participants", key |-> units[idx],
            page |-> params.next_page_token]
      [] pc = "get_meeting_settings_loop" /\ idx <= Len(units) ->
           [ep |-> "meeting.get", key |-> units[idx],
            page |-> params.next_page_token]
      [] OTHER -> NoReq

\* ------------------------------------------------------------- load_users
\* client.user.list(page_size=300, page_number=1): the call raises, or the
\* body lacks page_count (response["page_count"] raises KeyError), or the
\* body reports page_count.
load_users_first ==
    /\ pc = "load_users"
    /\ \E raises \in BOOLEAN, n \in 0..MaxPages :
         LET req == Request IN
         IF raises
         THEN /\ n = 0
              /\ Called(req, "raise")
              /\ Raise
              /\ UNCHANGED db
         ELSE /\ Called(req, "ok")
              /\ db' = drop_table(db, "Zoom_Users")
              /\ page' = 1
              /\ page_count' = n
              /\ pc' = "load_users_loop"
              /\ lastSleep' = 0
              /\ UNCHANGED <<mainpos, attempt, sleeps, returned, params, units, idx,
                             page_token, acc, run_date, student_group_id,
                             covered>>
    /\ UNCHANGED <<env, outcome, started, accounts>>

\* One pass of "while page <= page_count": the call raises, or returns the
\* records of the page asked for, or returns no records.
load_users_loop ==
    /\ pc = "load_users_loop"
    /\ page <= page_count
    /\ \E kind \in {"raise", "records", "empty"} :
         LET req == Request IN
         /\ Called(req, kind)
         /\ CASE kind = "raise" -> Raise /\ UNCHANGED db
              [] kind = "records" ->
                   /\ db' = insert_into(db, "Zoom_Users", <<[page |-> req.page]>>)
                   /\ page' = page + 1
                   /\ lastSleep' = 0
                   /\ UNCHANGED <<pc, mainpos, attempt, sleeps, returned, page_count,
                                  params, units, idx, page_token, acc,
                                  run_date, student_group_id, covered>>
              [] kind = "empty" ->
                   /\ lastSleep' = 0
                   /\ UNCHANGED <<db, pc, mainpos, attempt, sleeps, returned, locals>>
    /\ UNCHANGED <<env, outcome, started, accounts>>

load_users_return ==
    /\ pc = "load_users_loop"
    /\ page > page_count
    /\ Return
    /\ NotCalled
    /\ UNCHANGED <<env, outcome, db, started, accounts>>

\* ------------------------------------------------------------ load_groups
\* The group listings client.group.list() may return (response.get("groups")).
GroupListings ==
    { <<>>,
      <<[id |-> "g1", name |-> "Students"]>>,
      <<[id |-> "g2", name |-> "Staff"]>>,
      <<[id |-> "g1", name |-> "Students"], [id |-> "g2", name |-> "Staff"]>> }

load_groups ==
    /\ pc = "load_groups"
    /\ \E raises \in BOOLEAN, groups \in GroupListings :
         LET req == Request IN
         IF raises
         THEN /\ groups = <<>>
              /\ Called(req, "raise")
              /\ Raise
              /\ UNCHANGED db
         ELSE /\ Called(req, IF groups = <<>> THEN "empty" ELSE "records")
              /\ db' = IF groups # <<>>
                       THEN insert_into(drop_table(db, "Zoom_Groups"),
                                        "Zoom_Groups", groups)
                       ELSE drop_table(db, "Zoom_Groups")
              /\ Return
    /\ UNCHANGED <<env, outcome, started, accounts>>

\* ----------------------------------------------------- load_group_members
\* the column col of the rows, in row order
Column(rows, col) == [i \in 1..Len(rows) |-> rows[i][col]]

RECURSIVE SelectName(_, _)
SelectName(rows, name) ==
    IF rows = <<>> THEN <<>>
    ELSE IF Head(rows).name = name
         THEN <<Head(rows)>> \o SelectName(Tail(rows), name)
         ELSE SelectName(Tail(rows), name)

\* Connector._get_group_ids, on a store that holds Zoom_Groups
\* (pd.read_sql_table raises when it does not); groupname "" stands for None
get_group_ids(store, groupname) ==
    IF groupname # ""
    THEN Column(SelectName(store["Zoom_Groups"].rows, groupname), "id")
    ELSE Column(store["Zoom_Groups"].rows, "id")

load_group_members_start ==
    /\ pc = "load_group_members"
    /\ db' = drop_table(db, "Zoom_GroupMembers")
    /\ NotCalled
    /\ IF has_table(db, "Zoom_Groups")
       THEN /\ units' = get_group_ids(db, "")
            /\ idx' = 1
            /\ pc' = "load_group_members_first"
            /\ lastSleep' = 0
            /\ UNCHANGED <<mainpos, attempt, sleeps, returned, page, page_count, params,
                           page_token, acc, run_date, student_group_id,
                           covered>>
       ELSE Raise
    /\ UNCHANGED <<env, outcome, started, accounts>>

\* The first request of a group: params carries page_number 1.
load_group_members_first ==
    /\ pc = "load_group_members_first"
    /\ idx <= Len(units)
    /\ \E raises \in BOOLEAN, n \in 0..MaxPages :
         LET req == Request IN
         IF raises
         THEN /\ n = 0
              /\ Called(req, "raise")
              /\ Raise
         ELSE /\ Called(req, "ok")
              /\ page' = 1
              /\ params' = [NoParams EXCEPT !.page_number = 1]
              /\ page_count' = n
              /\ pc' = "load_group_members_loop"
              /\ lastSleep' = 0
              /\ UNCHANGED <<mainpos, attempt, sleeps, returned, units, idx, page_token,
                             acc, run_date, student_group_id, covered>>
    /\ UNCHANGED <<env, outcome, db, started, accounts>>

\* One pass of "while page <= page_count".  The listing is asked for the page
\* params["page_number"]; the loop writes the advanced page to params["page"].
load_group_members_loop ==
    /\ pc = "load_group_members_loop"
    /\ page <= page_count
    /\ \E kind \in {"raise", "records", "empty"} :
         LET req == Request IN
         /\ Called(req, kind)
         /\ CASE kind = "raise" -> Raise /\ UNCHANGED db
              [] kind = "records" ->
                   /\ db' = insert_into(db, "Zoom_GroupMembers",
                               <<[groupId |-> units[idx], page |-> req.page]>>)
                   /\ page' = page + 1
                   /\ params' = [params EXCEPT !.page = page + 1]
                   /\ lastSleep' = 0
                   /\ UNCHANGED <<pc, mainpos, attempt, sleeps, returned, page_count,
                                  units, idx, page_token, acc, run_date,
                                  student_group_id, covered>>
              [] kind = "empty" ->
                   /\ lastSleep' = 0
                   /\ UNCHANGED <<db, pc, mainpos, attempt, sleeps, returned, locals>>
    /\ UNCHANGED <<env, outcome, started, accounts>>

\* The while loop of a group ends: the for loop takes the next group.
load_group_members_next ==
    /\ pc = "load_group_members_loop"
    /\ page > page_count
    /\ idx' = idx + 1
    /\ pc' = "load_group_members_first"
    /\ NotCalled
    /\ UNCHANGED <<env, outcome, db, mainpos, attempt, sleeps, returned, started, page,
                   page_count, params, units, page_token, acc, run_date,
                   student_group_id, covered, lastSleep, accounts>>

load_group_members_return ==
    /\ pc = "load_group_members_first"
    /\ idx > Len(units)
    /\ Return
    /\ NotCalled
    /\ UNCHANGED <<env, outcome, db, started, accounts>>

\* ------------------------------------------------- create_student_accounts
\* students, emails and student_group_id are read before the first call;
\* _get_group_ids("Students")[0] raises when the store holds no Zoom_Groups
\* table (ValueError) or no group of that name (IndexError).
create_student_accounts_start ==
    /\ pc = "create_student_accounts"
    /\ NotCalled
    /\ IF has_table(db, "Zoom_Groups")
          /\ get_group_ids(db, "Students") # <<>>
       THEN /\ units' = students
            /\ acc' = students
            /\ student_group_id' = get_group_ids(db, "Students")[1]
            /\ idx' = 1
            /\ pc' = "create_student_accounts_loop"
            /\ lastSleep' = 0
            /\ UNCHANGED <<mainpos, attempt, sleeps, returned, page, page_count, params,
                           page_token, run_date, covered>>
       ELSE Raise
    /\ UNCHANGED <<env, outcome, db, started, accounts>>

\* One pass of "for student in students": client.user.create answers with a
\* success status, or with an error status (raise_for_status raises
\* HTTPError, which is caught), or raises another exception (a connection
\* error, a timeout), which is not caught.
create_student_accounts_loop ==
    /\ pc = "create_student_accounts_loop"
    /\ idx <= Len(units)
    /\ \E kind \in {"ok", "http_error", "raise"} :
         LET req == Request IN
         /\ Called(req, kind)
         /\ createCalls' = Append(createCalls, units[idx])
         /\ created' = IF kind = "ok" THEN Append(created, units[idx])
                       ELSE created
         /\ IF kind = "raise"
            THEN Raise
            ELSE /\ idx' = idx + 1
                 /\ lastSleep' = 0
                 /\ UNCHANGED <<pc, mainpos, attempt, sleeps, returned, page, page_count,
                                params, units, page_token, acc, run_date,
                                student_group_id, covered>>
    /\ UNCHANGED <<env, outcome, db, started, addCalls>>

\* After the loop: client.group.add_members(groupid=..., members=emails).
create_student_accounts_add ==
    /\ pc = "create_student_accounts_loop"
    /\ idx > Len(units)
    /\ \E kind \in {"ok", "http_error", "raise"} :
         LET req == Request IN
         /\ Called(req, kind)
         /\ addCalls' = Append(addCalls, acc)
         /\ IF kind = "raise" THEN Raise ELSE Return
    /\ UNCHANGED <<env, outcome, db, started, createCalls, created>>

\* ---------------------------------------------------------- load_meetings
\* Series.max() of a column of strings of one fixed-width format: the
\* greatest of col[lo..hi]
RECURSIVE MaxIn(_, _, _)
MaxIn(col, lo, hi) ==
    IF lo = hi THEN col[lo]
    ELSE LET mid == (lo + hi) \div 2
             a == MaxIn(col, lo, mid)
             b == MaxIn(col, mid + 1, hi)
         IN IF Before(a, b) THEN b ELSE a

MaxOf(col) == MaxIn(col, 1, Len(col))

\* today.month >= 6 in place of today.month > 6
get_school_start_date_from_june(t) ==
    IF t[2] >= RolloverMonth THEN <<t[1], StartMonth, 1>>
    ELSE <<t[1] - 1, StartMonth, 1>>

\* Connector.get_school_start_date
get_school_start_date(t) ==
    IF t[2] > RolloverMonth THEN <<t[1], StartMonth, 1>>
    ELSE <<t[1] - 1, StartMonth, 1>>

\* Connector.get_last_meeting_date
get_last_meeting_date(store, t) ==
    IF has_table(store, "Zoom_Meetings")
       /\ Len(store["Zoom_Meetings"].rows) > 0
    THEN PlusOneDay(DateOfStartTime(
             MaxOf(Column(store["Zoom_Meetings"].rows, "start_time"))))
    ELSE get_school_start_date(t)

\* the values of a sequence, as a set
Range(seq) == {seq[i] : i \in 1..Len(seq)}

\* The meeting the metrics listing holds on page k of a day: meeting k took
\* place that day (one id per recurring meeting, one uuid per occurrence).
MeetingOn(date, k) ==
    [uuid |-> <<date, k>>, id |-> k,
     start_time |-> <<date[1], date[2], date[3], 8 + k>>]

\* run_date > today in place of run_date >= today
NothingToDoStrict(date, t) == Before(t, date)

\* run_date >= datetime.datetime.today().date()
NothingToDo(date, t) == ~Before(date, t)

load_meetings_start ==
    /\ pc = "load_meetings"
    /\ NotCalled
    /\ LET date == get_last_meeting_date(db, today) IN
       IF NothingToDo(date, today)
       THEN Return
       ELSE /\ run_date' = date
            /\ page_token' = True
            /\ acc' = <<>>
            /\ params' = NoParams
            /\ covered' = IF has_table(db, "Zoom_Meetings")
                          THEN {DateOfStartTime(st) : st \in
                                  Range(Column(db["Zoom_Meetings"].rows,
                                               "start_time"))}
                          ELSE {}
            /\ pc' = "load_meetings_loop"
            /\ lastSleep' = 0
            /\ UNCHANGED <<mainpos, attempt, sleeps, returned, page, page_count, units,
                           idx, student_group_id>>
    /\ UNCHANGED <<env, outcome, db, started, accounts>>

\* meetings.extend(results) left out: meetings = results
replace_with(meetings, results) == results

\* meetings.extend(results)
extend(meetings, results) == meetings \o results

\* The ways a token-paginated listing (metric.list_meetings,
\* metric.list_participants) answers a request, and those among them in which
\* the request is served.
ListingKinds == {"raise", "throttled", "records", "empty"}
ListingServed == {"records", "empty"}

\* One pass of "while page_token", for a remote API that answers in one of
\* the given ways: the call raises, or the body carries the code 429 (no
\* meetings, no next_page_token), or the meetings of the page asked for, with
\* a next_page_token when more pages follow, or no meetings.
load_meetings_pass(kinds) ==
    /\ pc = "load_meetings_loop"
    /\ page_token # None
    /\ \E kind \in kinds, more \in BOOLEAN :
         LET k == PageServed(params.next_page_token)
             req == Request
             token == IF more THEN k + 1 ELSE None
         IN
         /\ more => (kind = "records" /\ k < MaxPages)
         /\ kind = "empty" => k = 1
         /\ Called(req, kind)
         /\ IF kind = "raise"
            THEN Raise
            ELSE /\ lastSleep' = IF kind = "throttled" THEN SleepMeetings ELSE 0
                 /\ acc' = IF kind = "records"
                           THEN extend(acc, <<MeetingOn(run_date, k)>>)
                           ELSE acc
                 /\ page_token' = token
                 /\ params' = [params EXCEPT !.next_page_token = token]
                 /\ UNCHANGED <<pc, mainpos, attempt, sleeps, returned, page, page_count,
                                units, idx, run_date, student_group_id,
                                covered>>
    /\ UNCHANGED <<env, outcome, db, started, accounts>>

load_meetings_loop ==
    load_meetings_pass(ListingKinds)

\* After the loop: the accumulated meetings, if any, are inserted.
load_meetings_persist ==
    /\ pc = "load_meetings_loop"
    /\ page_token = None
    /\ db' = IF acc # <<>> THEN insert_into(db, "Zoom_Meetings", acc) ELSE db
    /\ Return
    /\ NotCalled
    /\ UNCHANGED <<env, outcome, started, accounts>>

\* ------------------------------------------------------------ watermarks
\* JOIN in place of LEFT JOIN: the parent rows without a match are dropped
InnerJoin(parent, child, pk, ck) ==
    {<<i, j>> \in (1..Len(parent)) \X (1..Len(child)) :
        parent[i][pk] = child[j][ck]}

\* FROM parent LEFT JOIN child ON parent.pk = child.ck: the pairs <<i, j>> of
\* a parent row and a child row that match, and <<i, 0>> (the child columns
\* NULL) for a parent row that no child row matches
LeftJoin(parent, child, pk, ck) ==
    {<<i, j>> \in (1..Len(parent)) \X (1..Len(child)) :
        parent[i][pk] = child[j][ck]}
    \cup
    {<<i, 0>> : i \in {n \in 1..Len(parent) :
                         \A j \in 1..Len(child) : parent[n][pk] # child[j][ck]}}

\* the WHERE child.ck IS NULL left out: every parent key is selected
SelectAllParents(parent, child, pk, ck) ==
    {parent[i][pk] : i \in 1..Len(parent)}

\* SELECT DISTINCT parent.pk ... WHERE child.ck IS NULL
AntiJoin(parent, child, pk, ck) ==
    {parent[ij[1]][pk] : ij \in {x \in LeftJoin(parent, child, pk, ck) : x[2] = 0}}

\* the orders in which a query without ORDER BY may return a set of values
RECURSIVE Orders(_)
Orders(S) ==
    IF S = {} THEN {<<>>}
    ELSE UNION {{<<x>> \o rest : rest \in Orders(S \ {x})} : x \in S}

\* Connector._get_meeting_uuids and Connector._get_meeting_ids, on a store
\* that holds Zoom_Meetings: the lists they may return
UnsyncedKeys(store, child, pk, ck) ==
    IF has_table(store, child)
    THEN Orders(AntiJoin(store["Zoom_Meetings"].rows, store[child].rows, pk, ck))
    ELSE {Column(store["Zoom_Meetings"].rows, pk)}

get_meeting_uuids(store) ==
    UnsyncedKeys(store, "Zoom_Participants", "uuid", "meeting_uuid")

get_meeting_ids(store) ==
    UnsyncedKeys(store, "Zoom_Meeting_Settings", "id", "meeting_id")

\* the keys a child table holds rows for
CoveredKeys(store, child, ck) ==
    IF has_table(store, child) THEN Range(Column(store[child].rows, ck)) ELSE {}

\* ------------------------------------------------------ load_participants
\* uuids = self._get_meeting_uuids(); both of its queries raise when the
\* store holds no Zoom_Meetings table.
load_participants_start ==
    /\ pc = "load_participants"
    /\ NotCalled
    /\ IF has_table(db, "Zoom_Meetings")
       THEN /\ \E uuids \in get_meeting_uuids(db) : units' = uuids
            /\ covered' = CoveredKeys(db, "Zoom_Participants", "meeting_uuid")
            /\ idx' = 1
            /\ page_token' = True
            /\ params' = NoParams
            /\ pc' = "load_participants_loop"
            /\ lastSleep' = 0
            /\ UNCHANGED <<mainpos, attempt, sleeps, returned, page, page_count, acc,
                           run_date, student_group_id>>
       ELSE Raise
    /\ UNCHANGED <<env, outcome, db, started, accounts>>

\* One pass of "while page_token" for the uuid units[idx].  When the response
\* carries no next_page_token the while loop ends and the for loop takes the
\* next uuid, with page_token = True and fresh params.
load_participants_pass(kinds) ==
    /\ pc = "load_participants_loop"
    /\ idx <= Len(units)
    /\ \E kind \in kinds, more \in BOOLEAN :
         LET k == PageServed(params.next_page_token)
             req == Request
             token == IF more THEN k + 1 ELSE None
         IN
         /\ more => (kind = "records" /\ k < MaxPages)
         /\ kind = "empty" => k = 1
         /\ Called(req, kind)
         /\ IF kind = "raise"
            THEN Raise /\ UNCHANGED db
            ELSE /\ lastSleep' = IF kind = "throttled" THEN SleepParticipants
                                 ELSE 0
                 /\ db' = IF kind = "records"
                          THEN insert_into(db, "Zoom_Participants",
                                   <<[meeting_uuid |-> units[idx], page |-> k]>>)
                          ELSE db
                 /\ IF token # None
                    THEN /\ page_token' = token
                         /\ params' = [params EXCEPT !.next_page_token = token]
                         /\ UNCHANGED idx
                    ELSE /\ page_token' = True
                         /\ params' = NoParams
                         /\ idx' = idx + 1
                 /\ UNCHANGED <<pc, mainpos, attempt, sleeps, returned, page, page_count,
                                units, acc, run_date, student_group_id,
                                covered>>
    /\ UNCHANGED <<env, outcome, started, accounts>>

load_participants_loop ==
    load_participants_pass(ListingKinds)

load_participants_return ==
    /\ pc = "load_participants_loop"
    /\ idx > Len(units)
    /\ Return
    /\ NotCalled
    /\ UNCHANGED <<env, outcome, db, started, accounts>>

\* --------------------------------------------------- get_meeting_settings
\* Connector._format_settings_data: the settings of the response, or a row of
\* None values when the response holds no "settings"
format_settings_data(kind, meeting_id) ==
    [meeting_id |-> meeting_id,
     settings |-> IF kind = "records" THEN "returned" ELSE "none"]

\* a body with an embedded error code raised as an exception
meeting_get_raises_on_code(kind) == kind \in {"raise", "notfound"}

\* The outcomes of client.meeting.get(**params).json() that leave the loader
\* with an exception: the call itself raising.  A body that carries the code
\* 3001 is logged at debug level and processed like any other body.
meeting_get_raises(kind) == kind = "raise"

get_meeting_settings_start ==
    /\ pc = "get_meeting_settings"
    /\ NotCalled
    /\ IF has_table(db, "Zoom_Meetings")
       THEN /\ \E meeting_ids \in get_meeting_ids(db) : units' = meeting_ids
            /\ covered' = CoveredKeys(db, "Zoom_Meeting_Settings", "meeting_id")
            /\ idx' = 1
            /\ page_token' = True
            /\ params' = NoParams
            /\ acc' = <<>>
            /\ pc' = "get_meeting_settings_loop"
            /\ lastSleep' = 0
            /\ UNCHANGED <<mainpos, attempt, sleeps, returned, page, page_count,
                           run_date, student_group_id>>
       ELSE Raise
    /\ UNCHANGED <<env, outcome, db, started, accounts>>

\* the ways meeting.get answers a request, and those in which it is served
MeetingGetKinds == {"raise", "throttled", "notfound", "records"}
MeetingGetServed == {"records", "notfound"}

\* One pass of "while page_token" for the id units[idx]: client.meeting.get
\* raises, or its body carries the code 429, or the code 3001, or the
\* settings of the meeting; none of the bodies carries a next_page_token, so
\* the while loop ends and the results are inserted.
get_meeting_settings_pass(kinds) ==
    /\ pc = "get_meeting_settings_loop"
    /\ idx <= Len(units)
    /\ \E kind \in kinds :
         LET req == Request
             token == None
             results == Append(acc, format_settings_data(kind, units[idx]))
         IN
         /\ Called(req, kind)
         /\ IF meeting_get_raises(kind)
            THEN Raise /\ UNCHANGED db
            ELSE /\ lastSleep' = IF kind = "throttled" THEN SleepSettings ELSE 0
                 /\ IF token # None
                    THEN /\ acc' = results
                         /\ page_token' = token
                         /\ params' = [params EXCEPT !.next_page_token = token]
                         /\ UNCHANGED <<db, idx>>
                    ELSE /\ db' = insert_into(db, "Zoom_Meeting_Settings",
                                              results)
                         /\ acc' = <<>>
                         /\ page_token' = True
                         /\ params' = NoParams
                         /\ idx' = idx + 1
                 /\ UNCHANGED <<pc, mainpos, attempt, sleeps, returned, page, page_count,
                                units, run_date, student_group_id, covered>>
    /\ UNCHANGED <<env, outcome, started, accounts>>

get_meeting_settings_loop ==
    get_meeting_settings_pass(MeetingGetKinds)

get_meeting_settings_return ==
    /\ pc = "get_meeting_settings_loop"
    /\ idx > Len(units)
    /\ Return
    /\ NotCalled
    /\ UNCHANGED <<env, outcome, db, started, accounts>>

\* ---------------------------------------------------------- specifications
\* The days on which the first run may take place: the day before the school
\* year rolls over, August 1 (where the fallback watermark lies) and the day
\* after.
TodayChoices == {<<2024, 6, 30>>, <<2024, 8, 1>>, <<2024, 8, 2>>}

\* the locals and the bookkeeping before main() was entered
Fresh ==
    /\ runs = 1
    /\ pc = "main"
    /\ mainpos = 1
    /\ attempt = 1
    /\ sleeps = 0
    /\ started = <<>>
    /\ returned = <<>>
    /\ page = 0
    /\ page_count = 0
    /\ params = NoParams
    /\ units = <<>>
    /\ idx = 0
    /\ page_token = None
    /\ acc = <<>>
    /\ run_date = NoDate
    /\ student_group_id = ""
    /\ covered = {}
    /\ ncalls = 0
    /\ lastReq = NoReq
    /\ lastResp = "none"
    /\ lastSleep = 0
    /\ createCalls = <<>>
    /\ created = <<>>
    /\ addCalls = <<>>
    /\ error_message = "None"
    /\ notified = <<>>
    /\ exit_status = 0

\* One run of main() on an empty store, under any configuration.
Init ==
    /\ toggles \in [USERS : BOOLEAN, ACCOUNTS : BOOLEAN, MEETINGS : BOOLEAN,
                     ENABLE_MAILER : BOOLEAN]
    /\ today \in TodayChoices
    /\ students \in {[i \in 1..n |-> i] : n \in 0..MaxStudents}
    /\ db = EmptyStore
    /\ Fresh

UsersNext ==
    \/ load_users_first
    \/ load_users_loop
    \/ load_users_return
    \/ load_groups
    \/ load_group_members_start
    \/ load_group_members_first
    \/ load_group_members_loop
    \/ load_group_members_next
    \/ load_group_members_return

AccountsNext ==
    \/ create_student_accounts_start
    \/ create_student_accounts_loop
    \/ create_student_accounts_add

MeetingsNext ==
    \/ load_meetings_start
    \/ load_meetings_loop
    \/ load_meetings_persist
    \/ load_participants_start
    \/ load_participants_loop
    \/ load_participants_return
    \/ get_meeting_settings_start
    \/ get_meeting_settings_loop
    \/ get_meeting_settings_return

Next == main \/ script_end \/ UsersNext \/ AccountsNext \/ MeetingsNext

Spec == Init /\ [][Next]_vars

\* Successive runs of main() with MEETINGS alone enabled, from an empty
\* store.
InitMeetings ==
    /\ toggles = [USERS |-> FALSE, ACCOUNTS |-> FALSE, MEETINGS |-> TRUE,
                  ENABLE_MAILER |-> TRUE]
    /\ today \in TodayChoices
    /\ students = <<>>
    /\ db = EmptyStore
    /\ Fresh

NextMeetings == main \/ script_end \/ NewRun \/ MeetingsNext

SpecMeetings == InitMeetings /\ [][NextMeetings]_vars

\* Successive runs of main() with USERS alone enabled, from an empty store.
InitUsers ==
    /\ toggles = [USERS |-> TRUE, ACCOUNTS |-> FALSE, MEETINGS |-> FALSE,
                  ENABLE_MAILER |-> TRUE]
    /\ today \in TodayChoices
    /\ students = <<>>
    /\ db = EmptyStore
    /\ Fresh

NextUsers == main \/ script_end \/ NewRun \/ UsersNext

SpecUsers == InitUsers /\ [][NextUsers]_vars

\* The watermark resolver alone, on the stores successive runs build: the
\* meetings of the days from August 1, 2023 on, day after day, the last day
\* with one or two meetings, and a run on the day after the last day or the
\* day after that; or no table, and a run on the 1st or the 15th of a month.
MaxDays == 230

\* n successive days, from date on
RECURSIVE DaysFrom(_, _)
DaysFrom(date, n) ==
    IF n = 0 THEN <<>>
    ELSE IF n = 1 THEN <<date>>
    ELSE LET h == n \div 2
             first == DaysFrom(date, h)
         IN first \o DaysFrom(PlusOneDay(first[h]), n - h)

SchoolDays == DaysFrom(<<2023, 8, 1>>, MaxDays)

InitDates ==
    /\ toggles = [USERS |-> FALSE, ACCOUNTS |-> FALSE, MEETINGS |-> TRUE,
                  ENABLE_MAILER |-> TRUE]
    /\ students = <<>>
    /\ \E n \in 0..MaxDays, last \in 1..2 :
         LET days == SubSeq(SchoolDays, 1, n)
             rows == [i \in 1..n |-> MeetingOn(days[i], 1)]
                       \o (IF last = 2 /\ n > 0
                           THEN <<MeetingOn(days[n], 2)>> ELSE <<>>)
         IN
         IF n = 0
         THEN /\ db = EmptyStore
              /\ today \in {<<y, m, d>> : y \in {2023, 2024}, m \in 1..12,
                                         d \in {1, 15}}
         ELSE /\ db = [EmptyStore EXCEPT
                         !["Zoom_Meetings"] = [exists |-> TRUE, rows |-> rows]]
              /\ today \in {PlusOneDay(days[n]),
                            PlusOneDay(PlusOneDay(days[n]))}
    /\ runs = 1
    /\ pc = "load_meetings"
    /\ mainpos = 5
    /\ attempt = 1
    /\ sleeps = 0
    /\ started = <<"load_meetings">>
    /\ returned = <<>>
    /\ page = 0
    /\ page_count = 0
    /\ params = NoParams
    /\ units = <<>>
    /\ idx = 0
    /\ page_token = None
    /\ acc = <<>>
    /\ run_date = NoDate
    /\ student_group_id = ""
    /\ covered = {}
    /\ ncalls = 0
    /\ lastReq = NoReq
    /\ lastResp = "none"
    /\ lastSleep = 0
    /\ createCalls = <<>>
    /\ created = <<>>
    /\ addCalls = <<>>
    /\ error_message = "None"
    /\ notified = <<>>
    /\ exit_status = 0

SpecDates == InitDates /\ [][load_meetings_start]_vars

\* One call of load_meetings, with its re-attempts, on the same stores.
LoadMeetingsNext ==
    \/ load_meetings_start
    \/ load_meetings_loop
    \/ load_meetings_persist

SpecLoadMeetings == InitDates /\ [][LoadMeetingsNext]_vars

\* One call of get_meeting_settings, on the stores earlier runs leave: the
\* meetings of the first days of the school year, the same recurring
\* meetings every day, and no settings table or the settings of the first of
\* the meeting ids.
InitSettings ==
    /\ toggles = [USERS |-> FALSE, ACCOUNTS |-> FALSE, MEETINGS |-> TRUE,
                  ENABLE_MAILER |-> TRUE]
    /\ students = <<>>
    /\ today = <<2024, 8, 1>>
    /\ \E d \in 1..MaxRuns, n \in 1..MaxPages, c \in 0..MaxPages :
         LET meetings == [i \in 1..(d * n) |->
                            MeetingOn(SchoolDays[((i - 1) \div n) + 1],
                                      ((i - 1) % n) + 1)]
             settings == [i \in 1..c |-> format_settings_data("records", i)]
         IN
         /\ c <= n
         /\ db = [EmptyStore EXCEPT
                    !["Zoom_Meetings"] = [exists |-> TRUE, rows |-> meetings],
                    !["Zoom_Meeting_Settings"] =
                        IF c = 0 THEN NoTable
                        ELSE [exists |-> TRUE, rows |-> settings]]
    /\ runs = 1
    /\ pc = "get_meeting_settings"
    /\ mainpos = Len(Order)
    /\ attempt = 1
    /\ sleeps = 0
    /\ started = <<"load_meetings", "load_participants",
                   "get_meeting_settings">>
    /\ returned = <<"load_meetings", "load_participants">>
    /\ page = 0
    /\ page_count = 0
    /\ params = NoParams
    /\ units = <<>>
    /\ idx = 0
    /\ page_token = None
    /\ acc = <<>>
    /\ run_date = NoDate
    /\ student_group_id = ""
    /\ covered = {}
    /\ ncalls = 0
    /\ lastReq = NoReq
    /\ lastResp = "none"
    /\ lastSleep = 0
    /\ createCalls = <<>>
    /\ created = <<>>
    /\ addCalls = <<>>
    /\ error_message = "None"
    /\ notified = <<>>
    /\ exit_status = 0

SettingsNext ==
    \/ get_meeting_settings_start
    \/ get_meeting_settings_loop
    \/ get_meeting_settings_return

SpecSettings == InitSettings /\ [][SettingsNext]_vars

\* Repeated runs of main() with MEETINGS alone enabled, on a day after
\* August 1, 2024, from an empty store, against a remote API that neither
\* fails nor throttles: a listing returns its records, or none.
ProgressDays == {<<2024, 8, 1>>, <<2024, 8, 2>>}

InitProgress ==
    /\ toggles = [USERS |-> FALSE, ACCOUNTS |-> FALSE, MEETINGS |-> TRUE,
                  ENABLE_MAILER |-> TRUE]
    /\ today \in {PlusOneDay(d) : d \in ProgressDays}
    /\ students = <<>>
    /\ db = EmptyStore
    /\ Fresh

load_meetings_served == load_meetings_pass(ListingServed)

load_participants_served == load_participants_pass(ListingServed)

get_meeting_settings_served == get_meeting_settings_pass(MeetingGetServed)

NextProgress ==
    \/ main
    \/ script_end
    \/ Rerun
    \/ load_meetings_start
    \/ load_meetings_served
    \/ load_meetings_persist
    \/ load_participants_start
    \/ load_participants_served
    \/ load_participants_return
    \/ get_meeting_settings_start
    \/ get_meeting_settings_served
    \/ get_meeting_settings_return

\* A process that can take a step takes it, and the scheduler keeps starting
\* runs.
SpecProgress == InitProgress /\ [][NextProgress]_vars /\ WF_vars(NextProgress)

\* ------------------------------------------------------------------ claims
TokenLoops == {"load_meetings_loop", "load_participants_loop",
               "get_meeting_settings_loop"}

\* C1: in load_meetings, load_participants and get_meeting_settings, a
\* response that carries the code 429 is followed by one sleep of the fixed
\* interval (60 s in load_meetings, 10 s in the other two) and the next
\* remote call is the same request again (same unit, same page token);
\* nothing is persisted for the throttled response and no retry attempt is
\* consumed.
C1_ThrottleReissuesRequest ==
    [][(pc \in TokenLoops /\ lastResp' = "throttled") =>
         /\ lastSleep' = (IF pc = "load_meetings_loop" THEN 60 ELSE 10)
         /\ Request' = lastReq'
         /\ db' = db
         /\ attempt' = attempt]_vars

\* the pages of the rows Zoom_GroupMembers holds for a group, in row order
RECURSIVE PagesOf(_, _)
PagesOf(rows, group) ==
    IF rows = <<>> THEN <<>>
    ELSE IF Head(rows).groupId = group
         THEN <<Head(rows).page>> \o PagesOf(Tail(rows), group)
         ELSE PagesOf(Tail(rows), group)

\* C2: load_group_members asks, in the loop of a group, for the page numbers
\* 1, 2, ..., page_count in that order and inserts each page once: when the
\* loop stands at page p, Zoom_GroupMembers holds the pages 1..p-1 of the
\* group, each once, and the next request is for page p.
C2_GroupMemberPagesInOrder ==
    pc = "load_group_members_loop" =>
      /\ PagesOf(db["Zoom_GroupMembers"].rows, units[idx])
           = [i \in 1..(page - 1) |-> i]
      /\ page <= page_count => Request.page = page

\* C3: in the number-paginated loops of load_users and load_group_members a
\* page that returns no records persists nothing and the cursor advances to
\* the next page, so that the loop ends.
C3_EmptyBatchAdvances ==
    [][(pc \in {"load_users_loop", "load_group_members_loop"}
        /\ lastResp' = "empty") =>
         /\ db' = db
         /\ page' = page + 1]_vars

EntityLoaders == {"load_users", "load_groups", "load_group_members",
                  "load_meetings", "load_participants", "get_meeting_settings"}

\* C4: for each entity loader a remote failure is retried: a failure reaches
\* main() only from the third attempt, there is no fourth attempt, and a
\* loader that is on its attempt n has slept n - 1 backoff sleeps (two when
\* the third attempt succeeds).
C4_RetryPolicy ==
    (mainpos <= Len(Order) /\ Order[mainpos] \in EntityLoaders) =>
      /\ attempt <= 3
      /\ sleeps = attempt - 1
      /\ (pc = "raised" /\ lastResp = "raise") => attempt = 3

\* C10: in create_student_accounts a creation call that fails, in whatever
\* way, does not end the batch: the loop goes on to the next student.
C10_CreationFailureIsolated ==
    (lastReq.ep = "user.create" /\ lastResp # "ok") =>
      /\ pc = "create_student_accounts_loop"
      /\ idx = Len(createCalls) + 1

\* the rows an action appends to a table
NewRows(table) ==
    SubSeq(db'[table].rows, Len(db[table].rows) + 1, Len(db'[table].rows))

\* C5: across runs, and across the re-attempts of a loader within a run, the
\* append-only tables receive no row for a key that was covered when the
\* watermark was resolved: no meeting of a day on or before a day that was
\* persisted, no participant of a meeting uuid that had participant rows, no
\* settings of a meeting id that had a settings row.
C5_NoRowsForCoveredKeys ==
    [][/\ \A r \in Range(NewRows("Zoom_Meetings")) :
            \A d \in covered : Before(d, DateOfStartTime(r.start_time))
       /\ \A r \in Range(NewRows("Zoom_Participants")) :
            r.meeting_uuid \notin covered
       /\ \A r \in Range(NewRows("Zoom_Meeting_Settings")) :
            r.meeting_id \notin covered]_vars

\* a second run inserts participants while other meetings are covered
C5_Witness ==
    /\ runs = 2
    /\ pc = "load_participants_loop"
    /\ covered # {}
    /\ lastResp = "records"

\* C6: when get_last_meeting_date() resolves today or a later day,
\* load_meetings makes no remote call, inserts nothing and returns to main().
C6_NoOpWhenUpToDate ==
    [][(pc = "load_meetings"
        /\ ~Before(get_last_meeting_date(db, today), today)) =>
         /\ ncalls = 0
         /\ ncalls' = 0
         /\ db' = db
         /\ pc' = "main"
         /\ returned' = Append(returned, "load_meetings")]_vars

\* load_meetings has returned without a call, on a store whose last
\* persisted meeting is of the day before today
C6_Witness ==
    /\ pc = "main"
    /\ returned # <<>>
    /\ returned[Len(returned)] = "load_meetings"
    /\ ncalls = 0
    /\ has_table(db, "Zoom_Meetings")
    /\ ~Before(get_last_meeting_date(db, today), today)

\* days from January 1 of the year 1 to a date, by the count of leap years
DaysBefore == <<0, 31, 59, 90, 120, 151, 181, 212, 243, 273, 304, 334>>

Ordinal(dt) ==
    LET y == dt[1] - 1
        leap == (dt[1] % 4 = 0 /\ dt[1] % 100 # 0) \/ dt[1] % 400 = 0
    IN 365 * y + (y \div 4) - (y \div 100) + (y \div 400)
       + DaysBefore[dt[2]] + (IF leap /\ dt[2] > 2 THEN 1 ELSE 0) + dt[3]

\* the date is a date of the calendar, and the day after the latest day the
\* rows hold a start_time of
DayAfterLatest(date, rows) ==
    /\ date[2] \in 1..12
    /\ date[3] >= 1
    /\ Ordinal(date) < Ordinal(IF date[2] < 12
                               THEN <<date[1], date[2] + 1, 1>>
                               ELSE <<date[1] + 1, 1, 1>>)
    /\ \E i \in 1..Len(rows) :
         Ordinal(date) = Ordinal(DateOfStartTime(rows[i].start_time)) + 1
    /\ \A j \in 1..Len(rows) :
         Ordinal(DateOfStartTime(rows[j].start_time)) < Ordinal(date)

KeysOf(table, col) ==
    {db[table].rows[i][col] : i \in 1..Len(db[table].rows)}

\* C8: _get_meeting_uuids and _get_meeting_ids return the parent keys of
\* Zoom_Meetings that have no row in the child table, and all the parent keys
\* when the child table does not exist.
C8_UnsyncedKeys ==
    [][/\ (pc = "load_participants" /\ pc' = "load_participants_loop") =>
            /\ Range(units') = KeysOf("Zoom_Meetings", "uuid")
                                 \ KeysOf("Zoom_Participants", "meeting_uuid")
            /\ ~db["Zoom_Participants"].exists =>
                 Range(units') = KeysOf("Zoom_Meetings", "uuid")
       /\ (pc = "get_meeting_settings" /\ pc' = "get_meeting_settings_loop") =>
            /\ Range(units') = KeysOf("Zoom_Meetings", "id")
                                 \ KeysOf("Zoom_Meeting_Settings", "meeting_id")
            /\ ~db["Zoom_Meeting_Settings"].exists =>
                 Range(units') = KeysOf("Zoom_Meetings", "id")]_vars

\* three meetings, one of them with participants: the other two are resolved
C8_Witness ==
    /\ pc = "load_participants_loop"
    /\ idx = 1
    /\ lastResp = "none"
    /\ Cardinality(KeysOf("Zoom_Meetings", "uuid")) = 3
    /\ Cardinality(covered) = 1
    /\ Len(units) = 2

AllToggles == toggles.USERS /\ toggles.ACCOUNTS /\ toggles.MEETINGS

\* C9: main() starts a loader only when every loader it started before has
\* returned, so that no loader is started after one that raised; with all
\* the toggles set the loaders start in the order load_users, load_groups,
\* load_group_members, create_student_accounts, load_meetings,
\* load_participants, get_meeting_settings.
C9_FixedOrder ==
    [][Len(started') > Len(started) =>
         /\ returned = started
         /\ AllToggles => started' = SubSeq(Order, 1, Len(started'))]_vars

\* load_meetings raised after four loaders returned: nothing else started
C9_Witness ==
    /\ AllToggles
    /\ pc = "raised"
    /\ started = SubSeq(Order, 1, 5)
    /\ returned = SubSeq(Order, 1, 4)

\* C11: after the creation loop create_student_accounts issues one bulk
\* add-members call to the Students group, whose member list is the accounts
\* created in this batch (a student whose creation failed is not in it); an
\* error status of that call is logged and the loader returns.
C11_BulkAddCreatedOnly ==
    addCalls # <<>> =>
      /\ Len(addCalls) = 1
      /\ addCalls[1] = created
      /\ lastReq = [ep |-> "group.add_members", key |-> "g1", page |-> None]
           => (lastResp = "http_error" => pc = "main")

\* C12: when the destination table of a full-replace loader (load_users,
\* load_groups, load_group_members) does not exist, drop_table does not raise
\* and leaves the store as it is, the loader goes on past the drop, and the
\* records it fetches are inserted: the table then exists and its last row is
\* the record fetched.
C12_DropAbsentTable ==
    [][/\ (pc = "load_users" /\ ~has_table(db, "Zoom_Users")
           /\ lastResp' = "ok") =>
            /\ drop_table(db, "Zoom_Users") = db
            /\ db' = db
            /\ pc' = "load_users_loop"
       /\ (pc = "load_users_loop" /\ lastResp' = "records") =>
            /\ has_table(db', "Zoom_Users")
            /\ NewRows("Zoom_Users") = <<[page |-> lastReq'.page]>>
       /\ (pc = "load_groups" /\ ~has_table(db, "Zoom_Groups")
           /\ lastResp' # "raise") =>
            /\ drop_table(db, "Zoom_Groups") = db
            /\ pc' = "main"
            /\ lastResp' = "records" =>
                 /\ has_table(db', "Zoom_Groups")
                 /\ Len(NewRows("Zoom_Groups")) >= 1
                 /\ db'["Zoom_Groups"].rows = NewRows("Zoom_Groups")
       /\ (pc = "load_group_members"
           /\ ~has_table(db, "Zoom_GroupMembers")) =>
            /\ drop_table(db, "Zoom_GroupMembers") = db
            /\ db' = db
            /\ has_table(db, "Zoom_Groups") => pc' = "load_group_members_first"
       /\ (pc = "load_group_members_loop" /\ lastResp' = "records") =>
            /\ has_table(db', "Zoom_GroupMembers")
            /\ NewRows("Zoom_GroupMembers")
                 = <<[groupId |-> units[idx], page |-> lastReq'.page]>>]_vars

\* load_users returned on its first attempt, on a store that held no
\* Zoom_Users: the table holds the two pages fetched
C12_Witness ==
    /\ runs = 1
    /\ returned = <<"load_users">>
    /\ attempt = 1
    /\ has_table(db, "Zoom_Users")
    /\ Len(db["Zoom_Users"].rows) = 2

\* C13: when main() raises, the captured trace is handed to the notifier
\* (where the notifier is enabled) and the process then ends with an exit
\* status that signals failure; when main() returns, the process ends with
\* the status of success.
C13_ExitStatusSignalsOutcome ==
    pc = "exited" =>
      /\ toggles.ENABLE_MAILER => notified = <<error_message>>
      /\ error_message = "None" => exit_status = 0
      /\ error_message # "None" => exit_status # 0

\* C14: in get_meeting_settings a response that carries the code 3001 for a
\* meeting id does not raise and does not end the load: the loop goes on
\* with the next meeting id of the unsynced list, the next request is for
\* that id, and the settings a response returns are persisted for its id.
C14_MeetingNotFoundSkipped ==
    [][/\ (pc = "get_meeting_settings_loop" /\ lastResp' = "notfound") =>
            /\ pc' = "get_meeting_settings_loop"
            /\ attempt' = attempt
            /\ units' = units
            /\ idx' = idx + 1
            /\ idx' <= Len(units) =>
                 Request' = [ep |-> "meeting.get", key |-> units[idx + 1],
                             page |-> None]
       /\ (pc = "get_meeting_settings_loop" /\ lastResp' = "records") =>
            /\ NewRows("Zoom_Meeting_Settings")
                 = <<[meeting_id |-> units[idx], settings |-> "returned"]>>
            /\ idx' = idx + 1]_vars

\* the first of two meeting ids was answered with the code 3001: a row
\* without settings was inserted for it and the loop stands at the second id
C14_Witness ==
    /\ pc = "get_meeting_settings_loop"
    /\ lastResp = "notfound"
    /\ Len(units) = 2
    /\ idx = 2
    /\ LET rows == db["Zoom_Meeting_Settings"].rows IN
       /\ Len(rows) >= 1
       /\ rows[Len(rows)] = [meeting_id |-> units[1], settings |-> "none"]

\* C15: load_meetings, for a listing of N pages chained by next_page_token,
\* asks for the pages one after the other (N requests when nothing fails),
\* stops at the first response without a next_page_token, and inserts the
\* meetings of all the N pages, accumulated over the loop.
C15_AllPagesAccumulated ==
    [][/\ (pc = "load_meetings_loop" /\ page_token # None
           /\ lastResp' = "records") =>
            /\ lastReq'.page = params.next_page_token
            /\ PageServed(lastReq'.page) = Len(acc) + 1
            /\ acc' = Append(acc, MeetingOn(run_date, Len(acc) + 1))
            /\ attempt = 1 => ncalls' = Len(acc')
       /\ (pc = "load_meetings_loop" /\ page_token = None) =>
            /\ lastReq' = NoReq
            /\ pc' = "main"
            /\ lastResp = "records" =>
                 /\ Len(acc) >= 1
                 /\ attempt = 1 => ncalls = Len(acc)
                 /\ NewRows("Zoom_Meetings")
                      = [k \in 1..Len(acc) |-> MeetingOn(run_date, k)]]_vars

\* load_meetings returned after two requests: the meetings of both pages of
\* the day are the last two rows of Zoom_Meetings
C15_Witness ==
    /\ pc = "main"
    /\ returned = <<"load_meetings">>
    /\ attempt = 1
    /\ ncalls = 2
    /\ LET rows == db["Zoom_Meetings"].rows IN
       /\ Len(rows) >= 2
       /\ rows[Len(rows)].uuid[2] = 2
       /\ rows[Len(rows) - 1].uuid = <<rows[Len(rows)].uuid[1], 1>>

\* C16: under repeated runs with MEETINGS enabled and no failure or
\* throttling the meetings watermark makes progress until it reaches today:
\* when it stands at a day D before today, a later run resolves a watermark
\* after D, also when the remote API returns no meeting for D.
C16_WatermarkProgress ==
    \A D \in ProgressDays :
      (get_last_meeting_date(db, today) = D /\ Before(D, today))
        ~> Before(D, get_last_meeting_date(db, today))

\* C17: a key counts as covered only once its data was persisted completely.
\* The rows are never removed, so a key that is covered by incomplete data
\* stays covered at the start of every later run; what must not happen is:
\* a meeting uuid holding participant rows after a request of its pagination
\* failed or was throttled, a settings row inserted for a response that
\* carried no settings (a failure, the code 429), the meetings of a day
\* inserted after the listing of the day was throttled.
C17_CoveredMeansComplete ==
    [][/\ (pc = "load_participants_loop"
           /\ lastResp' \in {"raise", "throttled"}) =>
            units[idx] \notin
              CoveredKeys(db', "Zoom_Participants", "meeting_uuid")
       /\ (pc = "get_meeting_settings_loop"
           /\ lastResp' \in {"raise", "throttled"}) =>
            NewRows("Zoom_Meeting_Settings") = <<>>
       /\ (pc = "load_meetings_loop" /\ page_token = None
           /\ lastResp = "throttled") =>
            NewRows("Zoom_Meetings") = <<>>]_vars

\* C18: with MEETINGS enabled on a store without Zoom_Meetings, after
\* load_meetings returned without inserting anything, load_participants and
\* get_meeting_settings do not raise: they resolve an empty list of unsynced
\* keys and make no remote call.
C18_NoMeetingsTableTolerated ==
    [][(pc \in {"load_participants", "get_meeting_settings"}
        /\ ~has_table(db, "Zoom_Meetings")) =>
         /\ pc' \in {"load_participants_loop", "get_meeting_settings_loop"}
         /\ attempt' = attempt
         /\ units' = <<>>
         /\ ncalls' = 0
         /\ db' = db]_vars

\* C19: within a run get_meeting_settings fetches each meeting id once, with
\* or without a Zoom_Meeting_Settings table, also when Zoom_Meetings holds
\* several rows (different uuids) of the same id: the list of ids it iterates
\* holds no id twice.
C19_OneFetchPerMeetingId ==
    pc = "get_meeting_settings_loop" =>
      \A i, j \in 1..Len(units) : units[i] = units[j] => i = j

\* the step removes rows the table held
Dropped(table) ==
    /\ has_table(db, table)
    /\ \/ ~has_table(db', table)
       \/ Len(db'[table].rows) < Len(db[table].rows)
       \/ SubSeq(db'[table].rows, 1, Len(db[table].rows)) # db[table].rows

\* C20: a full-replace loader (load_users, load_groups, load_group_members)
\* drops its destination table only once a remote response for the entity
\* was received in the same attempt, so that the rows of the previous run
\* are still there when the remote call fails on every attempt.
C20_DropOnlyAfterResponse ==
    [][\A table \in {"Zoom_Users", "Zoom_Groups", "Zoom_GroupMembers"} :
         Dropped(table) => lastResp' \in {"ok", "records", "empty"}]_vars

====
